---- MODULE Spec2Model ----
(***************************************************************************)
(* Model of the synchronisation engine of the ESP32 music manager:         *)
(* POST /api/convert-and-flash of server/index.js together with the        *)
(* helpers it calls (scanPCMFiles, convertToPCM, registerTempFile,         *)
(* cleanupTempFiles).  One sync call is a linear sequence of awaited       *)
(* steps; every step is one action.  The device's artifacts directory and  *)
(* its index.json are the only durable state.                              *)
(***************************************************************************)
EXTENDS Integers, Sequences, FiniteSets, TLC

(* ------------------------------------------------------------------ *)
(* Bounds and the universe of inputs                                  *)
(* ------------------------------------------------------------------ *)

\* largest number of audio files of one request
MaxFiles ==
    2

\* names of the virtual folders a file may be put in
FolderNames ==
    {"Pop", "Rock"}

\* `targetFolder = null`: the file is in no folder of the library structure
NoFolder ==
    ""

\* source paths, split the way path.basename/path.extname split them
PathA ==
    [dir |-> "/m", base |-> "a", ext |-> ".mp3"]

PathB ==
    [dir |-> "/m", base |-> "b", ext |-> ".mp3"]

PathA2 ==
    [dir |-> "/n", base |-> "a", ext |-> ".mp3"]

\* a display name, split at its last dot the way generateUniqueName splits it
NameA ==
    [stem |-> "a", ext |-> ".mp3"]

NameB ==
    [stem |-> "b", ext |-> ".mp3"]

\* the audio files the library can hold, named after their source when they
\* are added: two with the same display name and the same base name but
\* different source directories, and one other
FileItems ==
    { [name |-> NameA, path |-> PathA],
      [name |-> NameB, path |-> PathB],
      [name |-> NameA, path |-> PathA2] }

(* ------------------------------------------------------------------ *)
(* Pure helpers                                                       *)
(* ------------------------------------------------------------------ *)

\* path.basename(p, path.extname(p))
Basename(p) ==
    p.base

\* `${folder}/${basename}.pcm` for a file in a folder, `${basename}.pcm`
\* for a file in no folder
RelPathOf(folder, p) ==
    IF folder # NoFolder
      THEN folder \o "/" \o Basename(p) \o ".pcm"
      ELSE Basename(p) \o ".pcm"

\* s without its k-th element
RemoveAt(s, k) ==
    SubSeq(s, 1, k - 1) \o SubSeq(s, k + 1, Len(s))

\* the least element of a non-empty set of integers
Min(S) ==
    CHOOSE x \in S : \A y \in S : x <= y

\* `${baseName} (${counter})${extension}`
Numbered(name, counter) ==
    [stem |-> name.stem \o " (" \o ToString(counter) \o ")", ext |-> name.ext]

\* a renaming that tries the first number only
generateUniqueName_Once(name, existingNames) ==
    IF name \notin existingNames THEN name ELSE Numbered(name, 1)

\* generateUniqueName(name, existingNames): the name itself when it is free,
\* else the first numbered name that is free, counting from 1
generateUniqueName(name, existingNames) ==
    IF name \notin existingNames THEN name
    ELSE LET free == { c \in 1..(Cardinality(existingNames) + 1) :
                         Numbered(name, c) \notin existingNames }
         IN  Numbered(name, Min(free))

\* Math.round((p / t) * 100) for 0 <= p <= t, t > 0
RoundPercent(p, t) ==
    (200 * p + t) \div (2 * t)

\* b to the power of e
RECURSIVE Pow(_, _)
Pow(b, e) ==
    IF e = 0 THEN 1 ELSE b * Pow(b, e - 1)

(* ------------------------------------------------------------------ *)
(* The header codec                                                   *)
(* ------------------------------------------------------------------ *)

\* Buffer.alloc(32): the size of the header
HeaderSize ==
    32

\* header.write('ESP32PCM', 0): the character codes of the magic
Magic ==
    << 69, 83, 80, 51, 50, 80, 67, 77 >>

\* a writer that puts the most significant byte first
WriteUIntLE_BigEndian(value, n) ==
    [k \in 1..n |-> (value \div Pow(256, n - k)) % 256]

\* header.writeUInt32LE / writeUInt16LE: the n bytes of the value, least
\* significant first (the value fits n bytes, else the writer throws)
WriteUIntLE(value, n) ==
    [k \in 1..n |-> (value \div Pow(256, k - 1)) % 256]

\* createPCMHeader(sampleRate, bitDepth, channels, dataSize): a zeroed
\* buffer of 32 bytes, the magic at 0, then the four fields, the rest left 0
createPCMHeader(sampleRate, bitDepth, channels, dataSize) ==
    LET fields == Magic \o WriteUIntLE(sampleRate, 4) \o WriteUIntLE(bitDepth, 2)
                    \o WriteUIntLE(channels, 2) \o WriteUIntLE(dataSize, 4)
    IN  [k \in 1..HeaderSize |-> IF k <= Len(fields) THEN fields[k] ELSE 0]

\* the arguments the encoder is tried with: every field at its least value,
\* at the values the converter passes, at byte boundaries and at the top of
\* what the checker's integers hold
HeaderInputs ==
    [sampleRate : {0, 8000, 44100, 48000, 2147483647},
     bitDepth : {8, 16, 24, 65535},
     channels : {1, 2, 256},
     dataSize : {0, 1, 255, 256, 65536, 16777217, 2147483647}]

\* the raw samples the external codec decodes a source to (opaque to the
\* engine; sources differ in length, one decodes to nothing)
Decoded(p) ==
    IF p.base = "b" THEN << 1, 0, 255, 127 >>
    ELSE IF p.dir = "/m" THEN << 16, 32 >>
    ELSE << >>

(* ------------------------------------------------------------------ *)
(* The client's library, seen as the DesiredLayout it produces        *)
(* ------------------------------------------------------------------ *)

\* the library's audio files of one folder, in library order
FilesOfFolder(entries, f) ==
    LET Sel(e) == e.folder = f
        picked == SelectSeq(entries, Sel)
    IN  [k \in 1..Len(picked) |-> [name |-> picked[k].name, path |-> picked[k].path]]

\* keep only folders that hold at least one audio file
RECURSIVE FoldersOf(_, _)
FoldersOf(entries, order) ==
    IF order = << >> THEN << >>
    ELSE LET fs == FilesOfFolder(entries, Head(order))
             rest == FoldersOf(entries, Tail(order))
         IN  IF Len(fs) > 0
               THEN << [name |-> Head(order), files |-> fs] >> \o rest
               ELSE rest

\* the request's `files`: every audio item of the library, in library order
AudioFilesOf(entries) ==
    [k \in 1..Len(entries) |-> [name |-> entries[k].name, path |-> entries[k].path]]

\* the order in which the library lists its folders
FolderOrder ==
    << "Pop", "Rock" >>

\* every layout of at most MaxFiles distinct files
RECURSIVE LayoutsOfLen(_)
LayoutsOfLen(n) ==
    IF n = 0 THEN { << >> }
    ELSE { Append(es, [name |-> it.name, path |-> it.path, folder |-> f]) :
             es \in LayoutsOfLen(n - 1),
             it \in FileItems, f \in FolderNames \cup {NoFolder} }

\* a layout the library can hold: every source at most once, and no two
\* files of one folder (or of the root) with the same name
WellFormed(es) ==
    \A j, k \in 1..Len(es) :
      j # k => /\ es[j].path # es[k].path
               /\ es[j].folder = es[k].folder => es[j].name # es[k].name

Layouts ==
    { es \in UNION { LayoutsOfLen(n) : n \in 0..MaxFiles } : WellFormed(es) }

\* handleMoveItem: the file goes to the target folder and is renamed when a
\* file of the target (the moved file itself, when it is dropped on its own
\* folder) has its name
MoveItem(es, k, f) ==
    LET existingNames == { es[j].name : j \in { x \in 1..Len(es) : es[x].folder = f } }
    IN  [es EXCEPT ![k].folder = f,
                   ![k].name = generateUniqueName(es[k].name, existingNames)]

\* the layouts one library edit away from a layout (the edit may be none):
\* add a file, remove a file, move a file to a folder or to no folder,
\* rename a folder to an unused name
Edits(es) ==
    LET used == { es[k].folder : k \in 1..Len(es) }
        all ==
          {es}
          \cup { Append(es, [name |-> it.name, path |-> it.path, folder |-> f]) :
                   it \in { x \in FileItems : Len(es) < MaxFiles },
                   f \in FolderNames \cup {NoFolder} }
          \cup { RemoveAt(es, k) : k \in 1..Len(es) }
          \cup { MoveItem(es, k, f) :
                   k \in 1..Len(es), f \in FolderNames \cup {NoFolder} }
          \cup { [k \in 1..Len(es) |->
                    IF es[k].folder = f THEN [es[k] EXCEPT !.folder = g] ELSE es[k]] :
                   f \in FolderNames \cap used, g \in FolderNames \ used }
    IN  { l \in all : WellFormed(l) }

(* ------------------------------------------------------------------ *)
(* State                                                              *)
(* ------------------------------------------------------------------ *)

VARIABLES
    layout,        \* the client's library as a DesiredLayout
    files,         \* req.body.files of the call being served
    musicFolders,  \* req.body.libraryStructure.musicFolders
    pc,            \* position of the handler; "rejected": it threw outside its try
    disk,          \* the .pcm files under ESP32_MUSIC: [rel, src, data] per file
    dirs,          \* directories under ESP32_MUSIC
    rootEntries,   \* what the device root holds: ESP32_MUSIC, a left probe file
    indexFile,     \* ESP32_MUSIC/index.json: << >> when absent, else << content >>
    pending,       \* existing relative paths the deletion loop has yet to unlink
    updatedExistingRelPaths, \* the re-scan after deletion
    i,             \* index of the conversion loop (1-based)
    processedFiles,
    convertedFiles,
    indexData,     \* the index built from convertedFiles: << >> or << content >>
    events,        \* lines written to the response stream by this call
    response,      \* "none", "stream" (headers sent), "ended", "json500", "broken"
    tempFiles,     \* the process-wide set of registered staged files
    tmpDisk,       \* staged files that exist in os.tmpdir()
    ops,           \* filesystem and codec operations of this call, in order
    faultCount,    \* failures of the environment so far
    prev,          \* what the previous call left: << >> or << snapshot >>
    headerArgs,    \* arguments of a call of the header encoder: << >> or << args >>
    header,        \* what that call returned: << >> or << bytes >>
    libraryItems,  \* the client's library while it is edited: items with id and parent
    inFlight,      \* indexes of the files whose conversion was started and has not settled
    errorMessage,  \* message of the error thrown into the catch of the handler, "" when none
    nameArgs,      \* arguments of a call of generateUniqueName: << >> or << args >>
    nameResult,    \* what that call returned: << >> or << name >>
    removedId,     \* the id the last edit of the library asked to remove: << >> or << id >>
    otherTemp,     \* staged payloads another sync call registered and has not read back
    otherFiles     \* files on the device that are no .pcm files: [under, rel] per file

vars ==
    << layout, files, musicFolders, pc, disk, dirs, rootEntries, indexFile, pending,
       updatedExistingRelPaths, i, processedFiles, convertedFiles, indexData,
       events, response, tempFiles, tmpDisk, ops, faultCount, prev,
       headerArgs, header, libraryItems, inFlight, errorMessage,
       nameArgs, nameResult, removedId, otherTemp, otherFiles >>

\* everything but the variables of the header encoder
syncVars ==
    << layout, files, musicFolders, pc, disk, dirs, rootEntries, indexFile, pending,
       updatedExistingRelPaths, i, processedFiles, convertedFiles, indexData,
       events, response, tempFiles, tmpDisk, ops, faultCount, prev,
       inFlight, errorMessage, otherTemp, otherFiles >>

\* the library and the last removal asked for
libraryVars ==
    << libraryItems, removedId >>

codecVars ==
    << headerArgs, header, nameArgs, nameResult >>

\* variables local to one call of the handler
callVars ==
    << pending, updatedExistingRelPaths, i, processedFiles, convertedFiles, indexData >>

deviceVars ==
    << disk, dirs, rootEntries, indexFile >>

\* path.join(devicePath, 'ESP32_MUSIC')
OutputDir ==
    "ESP32_MUSIC"

\* a file the user keeps in the root of the device
OwnFile ==
    [under |-> "", rel |-> "notes.txt"]

\* a file that is no .pcm file, put into ESP32_MUSIC by the user
OwnCover ==
    [under |-> OutputDir, rel |-> "cover.jpg"]

Init ==
    /\ layout \in Layouts
    /\ files = << >>
    /\ musicFolders = << >>
    /\ pc = "idle"
    /\ disk = {}
    /\ dirs = {}
    /\ rootEntries = {}
    /\ indexFile = << >>
    /\ pending = {}
    /\ updatedExistingRelPaths = {}
    /\ i = 1
    /\ processedFiles = 0
    /\ convertedFiles = << >>
    /\ indexData = << >>
    /\ events = << >>
    /\ response = "none"
    /\ tempFiles = {}
    /\ tmpDisk = {}
    /\ ops = << >>
    /\ faultCount = 0
    /\ prev = << >>
    /\ inFlight = {}
    /\ errorMessage = ""
    /\ headerArgs = << >>
    /\ header = << >>
    /\ libraryItems = << >>
    /\ removedId = << >>
    /\ otherTemp = {}
    /\ otherFiles = {}
    /\ nameArgs = << >>
    /\ nameResult = << >>

(* ------------------------------------------------------------------ *)
(* Helpers of the handler                                             *)
(* ------------------------------------------------------------------ *)

\* fs.readdir of ESP32_MUSIC and of its directories: every file below it,
\* with entry.name.endsWith('.pcm') as pcm
Entries ==
    { [rel |-> a.rel, pcm |-> TRUE] : a \in disk }
      \cup { [rel |-> o.rel, pcm |-> FALSE] : o \in { x \in otherFiles : x.under = OutputDir } }

\* a scan that keeps every file it meets
scanPCMFiles_AnyFile ==
    { e.rel : e \in Entries }

\* scanPCMFiles(outputDir): the relative paths of the .pcm files on the device
scanPCMFiles ==
    { e.rel : e \in { x \in Entries : x.pcm } }

\* fs.unlink(absPath) of a path under ESP32_MUSIC, for the files that are
\* no .pcm files
UnlinkOther(o, rel) ==
    { x \in o : ~(x.under = OutputDir /\ x.rel = rel) }

\* fs.writeFile(outputPath, pcmData): create or overwrite the artifact with
\* the staged payload as it was read back
WriteArtifact(d, rel, src) ==
    { a \in d : a.rel # rel } \cup { [rel |-> rel, src |-> src, data |-> Decoded(src)] }

\* fs.unlink(absPath)
UnlinkArtifact(d, rel) ==
    { a \in d : a.rel # rel }

\* the set built from every file of every folder of the library structure
desiredRelPaths ==
    UNION { { RelPathOf(musicFolders[f].name, musicFolders[f].files[k].path) :
                k \in 1..Len(musicFolders[f].files) } :
            f \in 1..Len(musicFolders) }

\* folder.files.find(f => f.name === name) succeeds
FolderHasName(folder, name) ==
    \E k \in 1..Len(folder.files) : folder.files[k].name = name

\* musicFolders.findIndex(folder => folder.files.some(f => f.name === name)),
\* 0-based, -1 when no folder matches
FolderIndexOf(folders, name) ==
    LET hits == { f \in 1..Len(folders) : FolderHasName(folders[f], name) }
    IN  IF hits = {} THEN -1 ELSE Min(hits) - 1

\* the first folder that holds a file of this name, or null
TargetFolder(file) ==
    LET idx == FolderIndexOf(musicFolders, file.name)
    IN  IF idx = -1 THEN NoFolder ELSE musicFolders[idx + 1].name

\* the relative path the conversion loop gives the file
RelativePath(file) ==
    RelPathOf(TargetFolder(file), file.path)

\* the staged payload of one conversion: esp32_pcm_<time>_<basename>.temp
TempPcm(file) ==
    << "esp32_pcm", Basename(file.path) >>

\* the staged index: esp32_index_<time>.json
TempIndex ==
    << "esp32_index", "json" >>

\* largest number of failures of the environment in one run
MaxFaults ==
    2

\* the environment may still fail
MayFail ==
    faultCount < MaxFaults

\* the results an operation of the environment can have
Results ==
    IF MayFail THEN BOOLEAN ELSE {TRUE}

\* the failure count after an operation
Counted(ok) ==
    IF ok THEN faultCount ELSE faultCount + 1

\* one entry of the operation log
Op(kind, k, rel, ok) ==
    [op |-> kind, idx |-> k, rel |-> rel, ok |-> ok]

\* the unlinks of staged files that may fail during one cleanup although the
\* file exists: none, or one of them
CleanupFailures(registered, existing) ==
    IF MayFail THEN {{}} \cup { {t} : t \in registered \cap existing } ELSE {{}}

\* a cleanup that empties the registry and unlinks nothing
AfterCleanup_RegistryOnly(registered, existing, failed) ==
    [tempFiles |-> {}, tmpDisk |-> existing]

\* cleanupTempFiles: unlink every registered file; an entry leaves the set
\* only when its unlink succeeds, that is when the file exists and the
\* unlink does not fail
AfterCleanup(registered, existing, failed) ==
    LET unlinked == (registered \cap existing) \ failed
    IN  [tempFiles |-> registered \ unlinked, tmpDisk |-> existing \ unlinked]

(* ------------------------------------------------------------------ *)
(* The handler of POST /api/convert-and-flash, step by step           *)
(* ------------------------------------------------------------------ *)

\* what a finished call leaves for the comparison with the next one
Snapshot ==
    [layout |-> layout, outcome |-> pc,
     index |-> indexFile, converted |-> convertedFiles]

\* the bodies a request can have: files and libraryStructure.musicFolders
\* present, or a body without libraryStructure.musicFolders
RequestShapes ==
    {"full", "noMusicFolders"}

\* what the user has put on the device by the time of a re-sync: a file in
\* its root and, when ESP32_MUSIC exists, a file in it that is no .pcm file
PutByUser ==
    IF pc = "idle" THEN {}
    ELSE IF OutputDir \in rootEntries THEN {OwnFile, OwnCover} ELSE {OwnFile}

\* a request arrives: the client sends its audio files and the library
\* structure derived from them.  The handler logs files.length and
\* libraryStructure.musicFolders.length before its try: a body without them
\* makes it throw there, outside the try
StartSync ==
    /\ \/ pc = "idle" /\ layout' = layout
       \/ /\ pc \in {"complete", "fatal"}
          /\ prev = << >>
          /\ layout' \in Edits(layout)
    /\ \E shape \in RequestShapes :
         /\ files' = AudioFilesOf(layout')
         /\ musicFolders' = IF shape = "full" THEN FoldersOf(layout', FolderOrder)
                                               ELSE << >>
         /\ pc' = IF shape = "full" THEN "precheck" ELSE "rejected"
    /\ prev' = IF pc = "idle" THEN << >> ELSE << Snapshot >>
    /\ pending' = {}
    /\ updatedExistingRelPaths' = {}
    /\ i' = 1
    /\ processedFiles' = 0
    /\ convertedFiles' = << >>
    /\ indexData' = << >>
    /\ events' = << >>
    /\ ops' = << >>
    /\ response' = "none"
    /\ inFlight' = {}
    /\ errorMessage' = ""
    /\ otherFiles' = otherFiles \cup PutByUser
    /\ UNCHANGED << deviceVars, tempFiles, tmpDisk, faultCount >>
    /\ UNCHANGED << codecVars, libraryVars, otherTemp >>

\* what the precondition checks can come to:
\*   "missing"   fs.stat of the device root fails
\*   "notdir"    the device root is not a directory
\*   "probe"     the probe file .write_test cannot be written
\*   "probeleft" the probe file was written and cannot be unlinked
\*   "mkdir"     ESP32_MUSIC cannot be created
\*   "outputdir" ESP32_MUSIC was created (or was there) and fails its write test
\*   "ok"        all checks pass
PreconditionOutcomes ==
    IF MayFail THEN {"missing", "notdir", "probe", "probeleft", "mkdir", "outputdir", "ok"}
               ELSE {"ok"}

\* what the checks leave in the device root
RootAfter(entries, out) ==
    CASE out = "probeleft" -> entries \cup {".write_test"}
      [] out \in {"outputdir", "ok"} -> entries \cup {OutputDir}
      [] OTHER -> entries

\* the message of the error a failed check throws.  The error thrown for a
\* root that is not a directory is thrown inside the try around fs.stat, so the
\* catch of that try replaces it
PreconditionError(out) ==
    CASE out \in {"missing", "notdir"} -> "Device path not accessible"
      [] out \in {"probe", "probeleft"} -> "Device path not writable"
      [] out \in {"mkdir", "outputdir"} -> "Failed to create output directory"
      [] OTHER -> ""

\* device root is a directory, the probe files can be written, ESP32_MUSIC
\* can be created and written; then the stream's headers are sent.  A failed
\* check throws into the catch of the handler
CheckPreconditions ==
    /\ pc = "precheck"
    /\ \E out \in PreconditionOutcomes :
         /\ ops' = Append(ops, Op("precondition", 0, out, out = "ok"))
         /\ faultCount' = Counted(out = "ok")
         /\ rootEntries' = RootAfter(rootEntries, out)
         /\ pc' = IF out = "ok" THEN "prep" ELSE "catch"
         /\ response' = IF out = "ok" THEN "stream" ELSE response
         /\ errorMessage' = PreconditionError(out)
    /\ UNCHANGED << layout, files, musicFolders, disk, dirs, indexFile, callVars,
                    events, tempFiles, tmpDisk, prev, inFlight >>
    /\ UNCHANGED << codecVars, libraryVars, otherTemp, otherFiles >>

\* a preparation that leaves the folders to the conversion loop
MkdirFolders_Lazy(d) ==
    d

\* fs.mkdir(folderPath, { recursive: true }) for every folder of the library
\* structure: a folder that exists stays as it is
MkdirFolders(d) ==
    d \cup { musicFolders[f].name : f \in 1..Len(musicFolders) }

\* mkdir -p of every folder of the library structure, then the
\* preparation status; a failing mkdir throws into the catch of the handler
PrepareFolders ==
    /\ pc = "prep"
    /\ \E ok \in Results :
         /\ ops' = Append(ops, Op("mkdir", 0, "", ok))
         /\ faultCount' = Counted(ok)
         /\ IF ok
              THEN /\ dirs' = MkdirFolders(dirs)
                   /\ events' = Append(events, [type |-> "status", step |-> "preparation"])
                   /\ pc' = "scan"
                   /\ UNCHANGED errorMessage
              ELSE /\ pc' = "catch"
                   /\ errorMessage' = "mkdir"
                   /\ UNCHANGED << dirs, events >>
    /\ UNCHANGED << layout, files, musicFolders, disk, rootEntries, indexFile, callVars,
                    response, tempFiles, tmpDisk, prev, inFlight >>
    /\ UNCHANGED << codecVars, libraryVars, otherTemp, otherFiles >>

\* scan the device and keep what the deletion loop has to visit: the
\* existing relative paths that are not desired
ScanDevice ==
    /\ pc = "scan"
    /\ pending' = scanPCMFiles \ desiredRelPaths
    /\ pc' = "delete"
    /\ UNCHANGED << layout, files, musicFolders, deviceVars, updatedExistingRelPaths, i,
                    processedFiles, convertedFiles, indexData, events, response,
                    tempFiles, tmpDisk, ops, faultCount, prev, inFlight, errorMessage >>
    /\ UNCHANGED << codecVars, libraryVars, otherTemp, otherFiles >>

\* the deletion loop may still unlink
CanDelete ==
    pc = "delete"

\* unlink one existing .pcm file that is not desired; a failure is only
\* warned about and the loop goes on
DeleteStale ==
    /\ CanDelete
    /\ \E r \in pending, ok \in Results :
         /\ pending' = pending \ {r}
         /\ disk' = IF ok THEN UnlinkArtifact(disk, r) ELSE disk
         /\ otherFiles' = IF ok THEN UnlinkOther(otherFiles, r) ELSE otherFiles
         /\ ops' = Append(ops, Op("unlink", 0, r, ok))
         /\ faultCount' = Counted(ok)
    /\ UNCHANGED << layout, files, musicFolders, pc, dirs, rootEntries, indexFile,
                    updatedExistingRelPaths, i, processedFiles, convertedFiles,
                    indexData, events, response, tempFiles, tmpDisk, prev, inFlight, errorMessage >>
    /\ UNCHANGED << codecVars, libraryVars, otherTemp >>

\* the deletion loop is over: re-scan the device
Rescan ==
    /\ pc = "delete"
    /\ pending = {}
    /\ updatedExistingRelPaths' = scanPCMFiles
    /\ pc' = "convert"
    /\ UNCHANGED << layout, files, musicFolders, deviceVars, pending, i, processedFiles,
                    convertedFiles, indexData, events, response, tempFiles, tmpDisk,
                    ops, faultCount, prev, inFlight, errorMessage >>
    /\ UNCHANGED << codecVars, libraryVars, otherTemp, otherFiles >>

\* a conversion loop that does not wait for the deletion loop
CanConvert_Early ==
    /\ pc \in {"delete", "convert"}
    /\ i <= Len(files)
    /\ inFlight = {}

\* a conversion loop that starts the next file without awaiting the
\* conversion it started
CanConvert_NoAwait ==
    /\ pc = "convert"
    /\ i <= Len(files)

\* the conversion loop may take its next file: the loop awaits each
\* conversion, so none is running
CanConvert ==
    /\ pc = "convert"
    /\ i <= Len(files)
    /\ inFlight = {}

\* a skip test that scans the device again at every turn
AlreadyExists_Live(file) ==
    RelativePath(file) \in scanPCMFiles

\* the file is skipped when its relative path was found by the re-scan
AlreadyExists(file) ==
    RelativePath(file) \in updatedExistingRelPaths

\* a progress line that counts the files converted so far, from 0
ProgressEvent_FromZero(file) ==
    [type |-> "progress", file |-> file.name,
     progress |-> RoundPercent(processedFiles, Len(files)),
     folder |-> IF TargetFolder(file) # NoFolder THEN TargetFolder(file) ELSE "root",
     current |-> processedFiles, total |-> Len(files)]

\* the progress line of one file
ProgressEvent(file) ==
    [type |-> "progress", file |-> file.name,
     progress |-> RoundPercent(processedFiles, Len(files)),
     folder |-> IF TargetFolder(file) # NoFolder THEN TargetFolder(file) ELSE "root",
     current |-> processedFiles + 1, total |-> Len(files)]

ErrorEvent(file, why) ==
    [type |-> "error", file |-> file.name, error |-> why]

\* the entry pushed to convertedFiles after a verified conversion
ConvertedEntry(file) ==
    [original |-> file.path, name |-> file.name, relativePath |-> RelativePath(file),
     sampleRate |-> 44100, bitDepth |-> 16, channels |-> 2]

\* what the first half of a turn can come to:
\*   "nofolder"   fs.mkdir of the file's folder fails: error line of the
\*                per-file catch, no progress line
\*   "unreadable" fs.access of the source fails: error line, continue
\*   "started"    the conversion was started
StartOutcomes ==
    IF MayFail THEN {"nofolder", "unreadable", "started"} ELSE {"started"}

\* what a started conversion can come to:
\*   "decode"     ffmpeg fails before any output: staged file registered only
\*   "write"      the staged payload exists, writing the destination fails
\*   "verify"     the destination was written but cannot be accessed
\*   "ok"         converted, verified and pushed to convertedFiles
Outcomes ==
    IF MayFail THEN {"decode", "write", "verify", "ok"} ELSE {"ok"}

\* a turn that pushes although writing the destination failed
Pushes_NoCheck(out) ==
    out \in {"ok", "write"}

\* the turn reaches convertedFiles.push: the conversion did not throw and
\* the written destination passed fs.access
Pushes(out) ==
    out = "ok"

\* a conversion whose decoder writes straight to the destination
WritesDestination_Direct(out) ==
    out \in {"decode", "verify", "ok"}

\* the conversion reaches fs.writeFile(outputPath, pcmData) and the write
\* succeeds: the decoder ended and the staged payload was read back
WritesDestination(out) ==
    out \in {"verify", "ok"}

\* a turn whose failed access check is reported twice
LinesOf_Twice(file, out) ==
    CASE out = "nofolder" -> << ErrorEvent(file, out) >>
      [] out = "unreadable" ->
           << ProgressEvent(file), ErrorEvent(file, out), ErrorEvent(file, out) >>
      [] OTHER -> << ProgressEvent(file) >>

\* the lines a turn writes to the stream before the conversion: the progress
\* line, then the error line of the access check; when the folder cannot be
\* made, only the error line of the per-file catch
LinesOf(file, out) ==
    CASE out = "nofolder" -> << ErrorEvent(file, out) >>
      [] out = "unreadable" -> << ProgressEvent(file), ErrorEvent(file, out) >>
      [] OTHER -> << ProgressEvent(file) >>

\* one turn of the conversion loop for files[i], up to the call of
\* convertToPCM: skip test, mkdir of the folder, progress line, access check,
\* registration of the staged file and start of the decoder.  i counts the
\* files the loop has taken
ConvertFile ==
    /\ CanConvert
    /\ LET file == files[i]
           rel == RelativePath(file)
       IN  IF AlreadyExists(file)
             THEN /\ ops' = Append(ops, Op("skip", i, rel, TRUE))
                  /\ UNCHANGED << dirs, events, tempFiles, faultCount, inFlight >>
             ELSE \E out \in StartOutcomes :
                    /\ ops' = IF out = "started" THEN ops
                                                 ELSE Append(ops, Op(out, i, rel, FALSE))
                    /\ faultCount' = Counted(out = "started")
                    /\ dirs' = IF TargetFolder(file) # NoFolder /\ out # "nofolder"
                                 THEN dirs \cup {TargetFolder(file)} ELSE dirs
                    /\ events' = events \o LinesOf(file, out)
                    /\ tempFiles' = IF out = "started"
                                      THEN tempFiles \cup {TempPcm(file)} ELSE tempFiles
                    /\ inFlight' = IF out = "started" THEN inFlight \cup {i} ELSE inFlight
    /\ i' = i + 1
    /\ UNCHANGED << layout, files, musicFolders, pc, disk, rootEntries, indexFile, pending,
                    updatedExistingRelPaths, processedFiles, convertedFiles, indexData,
                    response, tmpDisk, prev, errorMessage >>
    /\ UNCHANGED << codecVars, libraryVars, otherTemp, otherFiles >>

\* a started conversion settles and the turn goes on after the await: the
\* decoder ends or fails, the staged payload is read back and written to the
\* destination, the destination is verified and the file pushed to
\* convertedFiles; a failure writes the error line of the per-file catch
ConversionSettled ==
    /\ pc = "convert"
    /\ \E k \in inFlight, out \in Outcomes :
         LET file == files[k]
             rel == RelativePath(file)
         IN  /\ inFlight' = inFlight \ {k}
             /\ ops' = Append(ops, Op("convert", k, rel, out = "ok"))
             /\ faultCount' = Counted(out = "ok")
             /\ tmpDisk' = IF out \in {"write", "verify", "ok"}
                             THEN tmpDisk \cup {TempPcm(file)} ELSE tmpDisk
             /\ disk' = IF WritesDestination(out)
                          THEN WriteArtifact(disk, rel, file.path) ELSE disk
             /\ convertedFiles' = IF Pushes(out)
                                    THEN Append(convertedFiles, ConvertedEntry(file))
                                    ELSE convertedFiles
             /\ processedFiles' = IF Pushes(out)
                                    THEN processedFiles + 1 ELSE processedFiles
             /\ events' = IF out = "ok" THEN events
                                        ELSE Append(events, ErrorEvent(file, out))
    /\ UNCHANGED << layout, files, musicFolders, pc, dirs, rootEntries, indexFile, pending,
                    updatedExistingRelPaths, i, indexData, response, tempFiles, prev,
                    errorMessage >>
    /\ UNCHANGED << codecVars, libraryVars, otherTemp, otherFiles >>

\* one entry of allFiles
AllFilesEntry(f) ==
    [name |-> f.name, path |-> f.relativePath, sampleRate |-> f.sampleRate,
     bitDepth |-> f.bitDepth, channels |-> f.channels,
     folderIndex |-> FolderIndexOf(musicFolders, f.name)]

\* normalizedFiles.find(f => f.name === name): << >> or << the first match >>
FindConverted(name) ==
    LET hits == { k \in 1..Len(convertedFiles) : convertedFiles[k].name = name }
    IN  IF hits = {} THEN << >> ELSE << convertedFiles[Min(hits)] >>

\* folder.files.map(file => convertedFile ? {...} : null).filter(Boolean)
RECURSIVE FolderFiles(_)
FolderFiles(fs) ==
    IF fs = << >> THEN << >>
    ELSE LET c == FindConverted(Head(fs).name)
         IN  (IF c = << >> THEN << >>
              ELSE << [name |-> Head(fs).name, path |-> c[1].relativePath,
                       sampleRate |-> c[1].sampleRate, bitDepth |-> c[1].bitDepth,
                       channels |-> c[1].channels] >>)
             \o FolderFiles(Tail(fs))

\* an index whose folders come out in the reverse of the request's order
BuildIndexData_Reversed ==
    [version |-> "1.1",
     totalFiles |-> Len(convertedFiles),
     allFiles |-> [k \in 1..Len(convertedFiles) |-> AllFilesEntry(convertedFiles[k])],
     musicFolders |-> [f \in 1..Len(musicFolders) |->
                         [name |-> musicFolders[Len(musicFolders) + 1 - f].name,
                          files |-> FolderFiles(musicFolders[Len(musicFolders) + 1 - f].files)]]]

\* indexData, built from convertedFiles and the library structure
BuildIndexData ==
    [version |-> "1.1",
     totalFiles |-> Len(convertedFiles),
     allFiles |-> [k \in 1..Len(convertedFiles) |-> AllFilesEntry(convertedFiles[k])],
     musicFolders |-> [f \in 1..Len(musicFolders) |->
                         [name |-> musicFolders[f].name,
                          files |-> FolderFiles(musicFolders[f].files)]]]

\* the conversion loop is over and the index may be built
CanBuildIndex ==
    /\ pc = "convert"
    /\ i > Len(files)
    /\ inFlight = {}

\* build the index and register its staged file
BuildIndex ==
    /\ CanBuildIndex
    /\ indexData' = << BuildIndexData >>
    /\ tempFiles' = tempFiles \cup {TempIndex}
    /\ ops' = Append(ops, Op("index", 0, "", TRUE))
    /\ pc' = "indexwrite"
    /\ UNCHANGED << layout, files, musicFolders, deviceVars, pending,
                    updatedExistingRelPaths, i, processedFiles, convertedFiles,
                    events, response, tmpDisk, faultCount, prev, inFlight, errorMessage >>
    /\ UNCHANGED << codecVars, libraryVars, otherTemp, otherFiles >>

\* what writing the index can come to:
\*   "stage"  writing the staged index fails              -> fatal
\*   "parse"  the staged index does not parse back        -> fatal
\*   "copy"   copying it to the device fails              -> fatal
\*   "final"  the copy on the device cannot be re-read: logged only
\*   "ok"     written and verified: index and copy status lines
IndexOutcomes ==
    IF MayFail THEN {"stage", "parse", "copy", "final", "ok"} ELSE {"ok"}

\* a write that treats only a failed copy as an error
IndexThrows_CopyOnly(out) ==
    out = "copy"

\* the outcomes that throw out of the try around the index write
IndexThrows(out) ==
    out \in {"stage", "parse", "copy"}

\* stage the index, verify it, copy it to the device, verify it again
WriteIndex ==
    /\ pc = "indexwrite"
    /\ \E out \in IndexOutcomes :
         /\ ops' = Append(ops, Op("writeindex", 0, out, out = "ok"))
         /\ faultCount' = Counted(out = "ok")
         /\ tmpDisk' = IF out = "stage" THEN tmpDisk ELSE tmpDisk \cup {TempIndex}
         /\ IF IndexThrows(out)
              THEN /\ pc' = "catch"
                   /\ errorMessage' = "Failed to write index file"
                   /\ UNCHANGED << indexFile, events >>
              ELSE /\ indexFile' = indexData
                   /\ UNCHANGED errorMessage
                   /\ events' = IF out = "ok"
                                  THEN events \o << [type |-> "status", step |-> "index"],
                                                    [type |-> "status", step |-> "copy"] >>
                                  ELSE events
                   /\ pc' = "cleanup"
    /\ UNCHANGED << layout, files, musicFolders, disk, dirs, rootEntries, callVars,
                    response, tempFiles, prev, inFlight >>
    /\ UNCHANGED << codecVars, libraryVars, otherTemp, otherFiles >>

\* a complete line that counts the files of the request as converted
CompleteEvent_CountsRequested ==
    [type |-> "complete",
     stats |-> [filesConverted |-> Len(files), totalFiles |-> Len(files),
                foldersCreated |-> Len(musicFolders)]]

\* the complete line with its stats
CompleteEvent ==
    [type |-> "complete",
     stats |-> [filesConverted |-> Len(convertedFiles), totalFiles |-> Len(files),
                foldersCreated |-> Len(musicFolders)]]

\* clean up the staged files, report cleanup and completion, end the stream;
\* a staged file that cannot be unlinked is only warned about
Finish ==
    /\ pc = "cleanup"
    /\ \E failed \in CleanupFailures(tempFiles, tmpDisk) :
         /\ tempFiles' = AfterCleanup(tempFiles, tmpDisk, failed).tempFiles
         /\ tmpDisk' = AfterCleanup(tempFiles, tmpDisk, failed).tmpDisk
         /\ ops' = Append(ops, Op("cleanup", 0, "", failed = {}))
         /\ faultCount' = Counted(failed = {})
    /\ events' = events \o << [type |-> "status", step |-> "cleanup"], CompleteEvent >>
    /\ response' = "ended"
    /\ pc' = "complete"
    /\ UNCHANGED << layout, files, musicFolders, deviceVars, callVars, prev,
                    inFlight, errorMessage >>
    /\ UNCHANGED << codecVars, libraryVars, otherTemp, otherFiles >>

\* the catch of the handler: clean up the staged files, then answer with
\* status 500; once the stream's headers are out res.status(500).json throws
\* and no answer is sent
Fatal ==
    /\ pc = "catch"
    /\ \E failed \in CleanupFailures(tempFiles, tmpDisk) :
         /\ tempFiles' = AfterCleanup(tempFiles, tmpDisk, failed).tempFiles
         /\ tmpDisk' = AfterCleanup(tempFiles, tmpDisk, failed).tmpDisk
         /\ ops' = Append(ops, Op("cleanup", 0, "", failed = {}))
         /\ faultCount' = Counted(failed = {})
    /\ response' = IF response = "none" THEN "json500" ELSE "broken"
    /\ pc' = "fatal"
    /\ UNCHANGED << layout, files, musicFolders, deviceVars, callVars, events, prev,
                    inFlight, errorMessage >>
    /\ UNCHANGED << codecVars, libraryVars, otherTemp, otherFiles >>

Next ==
    \/ StartSync
    \/ CheckPreconditions
    \/ PrepareFolders
    \/ ScanDevice
    \/ DeleteStale
    \/ Rescan
    \/ ConvertFile
    \/ ConversionSettled
    \/ BuildIndex
    \/ WriteIndex
    \/ Finish
    \/ Fatal

Spec ==
    Init /\ [][Next]_vars

\* the handler is one chain of awaited steps: a step that can be taken is
\* taken in the end
\* the staged payload of a conversion of another sync call of the process
OtherTempPcm ==
    << "esp32_pcm", "other" >>

\* another sync call of the process starts a conversion: convertToPCM
\* registers its staged file in the module-level set and the decoder writes it
OtherCallStarts ==
    /\ pc \in {"precheck", "prep", "scan", "delete", "convert", "indexwrite", "cleanup", "catch"}
    /\ otherTemp = {}
    /\ otherTemp' = {OtherTempPcm}
    /\ tempFiles' = tempFiles \cup {OtherTempPcm}
    /\ tmpDisk' = tmpDisk \cup {OtherTempPcm}
    /\ UNCHANGED << layout, files, musicFolders, pc, deviceVars, callVars, events, response,
                    ops, faultCount, prev, inFlight, errorMessage >>
    /\ UNCHANGED << codecVars, libraryVars, otherFiles >>

\* the conversion of the other call reads its staged payload back (or fails
\* to, when the file is gone) and settles
OtherCallSettles ==
    /\ otherTemp # {}
    /\ otherTemp' = {}
    /\ UNCHANGED << layout, files, musicFolders, pc, deviceVars, callVars, events, response,
                    tempFiles, tmpDisk, ops, faultCount, prev, inFlight, errorMessage >>
    /\ UNCHANGED << codecVars, libraryVars, otherFiles >>

\* the handler with the conversions of a second call running in between
InterleavedNext ==
    \/ Next
    \/ OtherCallStarts
    \/ OtherCallSettles

InterleavedSpec ==
    Init /\ [][InterleavedNext]_vars

\* handleRenameItem gives an item any name: a file renamed to the name
\* another source has
RenamedItem ==
    [name |-> NameA, path |-> PathB]

\* the layouts of two files one of which is the renamed file
RenamedLayouts ==
    { l \in UNION { { << a, b >>, << b, a >> } :
                      a \in { [name |-> RenamedItem.name, path |-> RenamedItem.path,
                                folder |-> f] : f \in FolderNames \cup {NoFolder} },
                      b \in { [name |-> it.name, path |-> it.path, folder |-> g] :
                                it \in FileItems, g \in FolderNames \cup {NoFolder} } } :
        WellFormed(l) }

\* the library holds a renamed file when the first request is sent
RenamedInit ==
    /\ layout \in RenamedLayouts
    /\ files = << >>
    /\ musicFolders = << >>
    /\ pc = "idle"
    /\ disk = {}
    /\ dirs = {}
    /\ rootEntries = {}
    /\ indexFile = << >>
    /\ pending = {}
    /\ updatedExistingRelPaths = {}
    /\ i = 1
    /\ processedFiles = 0
    /\ convertedFiles = << >>
    /\ indexData = << >>
    /\ events = << >>
    /\ response = "none"
    /\ tempFiles = {}
    /\ tmpDisk = {}
    /\ ops = << >>
    /\ faultCount = 0
    /\ prev = << >>
    /\ inFlight = {}
    /\ errorMessage = ""
    /\ headerArgs = << >>
    /\ header = << >>
    /\ libraryItems = << >>
    /\ removedId = << >>
    /\ otherTemp = {}
    /\ otherFiles = {}
    /\ nameArgs = << >>
    /\ nameResult = << >>

RenamedSpec ==
    RenamedInit /\ [][Next]_vars

FairSpec ==
    Spec /\ WF_vars(Next)

(* ------------------------------------------------------------------ *)
(* The header encoder on its own                                      *)
(* ------------------------------------------------------------------ *)

\* no sync is running; the encoder is about to be called with some arguments
HeaderInit ==
    /\ layout = << >>
    /\ files = << >>
    /\ musicFolders = << >>
    /\ pc = "idle"
    /\ disk = {}
    /\ dirs = {}
    /\ rootEntries = {}
    /\ indexFile = << >>
    /\ pending = {}
    /\ updatedExistingRelPaths = {}
    /\ i = 1
    /\ processedFiles = 0
    /\ convertedFiles = << >>
    /\ indexData = << >>
    /\ events = << >>
    /\ response = "none"
    /\ tempFiles = {}
    /\ tmpDisk = {}
    /\ ops = << >>
    /\ faultCount = 0
    /\ prev = << >>
    /\ inFlight = {}
    /\ errorMessage = ""
    /\ headerArgs \in { << a >> : a \in HeaderInputs }
    /\ header = << >>
    /\ libraryItems = << >>
    /\ removedId = << >>
    /\ otherTemp = {}
    /\ otherFiles = {}
    /\ nameArgs = << >>
    /\ nameResult = << >>

\* the call returns the buffer it built; nothing else is touched
EncodeHeader ==
    /\ headerArgs # << >>
    /\ header = << >>
    /\ header' = << createPCMHeader(headerArgs[1].sampleRate, headerArgs[1].bitDepth,
                                    headerArgs[1].channels, headerArgs[1].dataSize) >>
    /\ UNCHANGED << syncVars, headerArgs, libraryVars, nameArgs, nameResult >>

HeaderNext ==
    \/ EncodeHeader

HeaderSpec ==
    HeaderInit /\ [][HeaderNext]_vars

(* ------------------------------------------------------------------ *)
(* The client's library while it is edited                            *)
(* ------------------------------------------------------------------ *)

\* largest number of items of the library
MaxItems ==
    3

\* `parent: undefined`: the item is at the root of the library
NoParent ==
    0

\* `path: ''` of a virtual folder
NoPath ==
    [dir |-> "", base |-> "", ext |-> ""]

\* the folders of the file system the user can add: /m and /n
DirM ==
    [dir |-> "/", base |-> "m", ext |-> ""]

DirN ==
    [dir |-> "/", base |-> "n", ext |-> ""]

\* what api.getFileSystem lists in a folder, audio files only
FolderContents(d) ==
    IF d = DirM THEN << [name |-> NameA, path |-> PathA], [name |-> NameB, path |-> PathB] >>
                ELSE << [name |-> NameA, path |-> PathA2] >>

\* the names the user types for a new virtual folder
VirtualFolderNames ==
    { [stem |-> "Pop", ext |-> ""], [stem |-> "Rock", ext |-> ""] }

\* the names the user types when renaming an item
RenameNames ==
    { NameA, [stem |-> "Pop", ext |-> ""] }

\* the names the library is followed through: the names of the sources and
\* of the folders, and each of them numbered once
LibraryNames ==
    LET plain == { NameA, NameB, [stem |-> "m", ext |-> ""], [stem |-> "n", ext |-> ""] }
                   \cup VirtualFolderNames
    IN  plain \cup { Numbered(n, 1) : n \in plain }

\* uuidv4(): an id no item of the library has
FreshId(items) ==
    Min({ x \in 1..(Len(items) + 1) : \A k \in 1..Len(items) : items[k].id # x })

\* the library with one more item at its end
WithItem(items, name, type, path, parent) ==
    Append(items, [id |-> FreshId(items), name |-> name, type |-> type,
                   path |-> path, parent |-> parent])

\* the audio files of an added folder, each a child of that folder
RECURSIVE WithChildren(_, _, _)
WithChildren(items, contents, parent) ==
    IF contents = << >> THEN items
    ELSE WithChildren(WithItem(items, Head(contents).name, "file", Head(contents).path, parent),
                      Tail(contents), parent)

\* the names of the items of one kind under one parent
SiblingNames(items, parent, type) ==
    { items[k].name : k \in { x \in 1..Len(items) :
                                items[x].parent = parent /\ items[x].type = type } }

\* the ids of the folders of the library
FolderIds(items) ==
    { items[k].id : k \in { x \in 1..Len(items) : items[x].type = "folder" } }

\* the item with this id: << >> or << item >>
FindItem(items, id) ==
    LET hits == { k \in 1..Len(items) : items[k].id = id }
    IN  IF hits = {} THEN << >> ELSE << items[Min(hits)] >>

\* isDescendantOf(item, folderId): follow the parents; "loop" when the chain
\* of parents never ends (the recursion of the code does not return)
RECURSIVE isDescendantOf(_, _, _, _)
isDescendantOf(items, item, folderId, seen) ==
    IF item.parent = NoParent THEN "no"
    ELSE IF item.parent = folderId THEN "yes"
    ELSE IF item.id \in seen THEN "loop"
    ELSE LET parentItem == FindItem(items, item.parent)
         IN  IF parentItem = << >> THEN "no"
             ELSE isDescendantOf(items, parentItem[1], folderId, seen \cup {item.id})

\* the audio files of the library whose parent is this id, in library order,
\* as { path, name } entries
ChildFiles(items, id) ==
    LET IsChild(item) == item.type = "file" /\ item.parent = id
        picked == SelectSeq(items, IsChild)
    IN  [k \in 1..Len(picked) |-> [path |-> picked[k].path, name |-> picked[k].name]]

\* folderMap: an entry for every folder of the library in library order, then
\* the entry 'root', named 'Root', which gets the files without a parent
folderMap(items) ==
    LET IsFolder(item) == item.type = "folder"
        folders == SelectSeq(items, IsFolder)
    IN  [k \in 1..Len(folders) |->
           [name |-> folders[k].name, id |-> folders[k].id,
            files |-> ChildFiles(items, folders[k].id)]]
        \o << [name |-> [stem |-> "Root", ext |-> ""], id |-> NoParent,
               files |-> ChildFiles(items, NoParent)] >>

\* generateIndexFileStructure(items): every audio file in allFiles, and the
\* entries of folderMap that hold at least one file as musicFolders
generateIndexFileStructure(items) ==
    LET IsAudio(item) == item.type = "file"
        audio == SelectSeq(items, IsAudio)
        HasFiles(folder) == Len(folder.files) > 0
        kept == SelectSeq(folderMap(items), HasFiles)
    IN  [version |-> "1.0",
         totalFiles |-> Len(audio),
         allFiles |-> [k \in 1..Len(audio) |-> [path |-> audio[k].path, name |-> audio[k].name]],
         musicFolders |-> [k \in 1..Len(kept) |-> [name |-> kept[k].name, files |-> kept[k].files]]]

\* no sync is running and the header encoder is not in use
NoSyncNoCodec ==
    /\ layout = << >>
    /\ files = << >>
    /\ musicFolders = << >>
    /\ pc = "idle"
    /\ disk = {}
    /\ dirs = {}
    /\ rootEntries = {}
    /\ indexFile = << >>
    /\ pending = {}
    /\ updatedExistingRelPaths = {}
    /\ i = 1
    /\ processedFiles = 0
    /\ convertedFiles = << >>
    /\ indexData = << >>
    /\ events = << >>
    /\ response = "none"
    /\ tempFiles = {}
    /\ tmpDisk = {}
    /\ ops = << >>
    /\ faultCount = 0
    /\ prev = << >>
    /\ inFlight = {}
    /\ errorMessage = ""
    /\ headerArgs = << >>
    /\ header = << >>

\* the application starts with an empty library
LibraryInit ==
    /\ NoSyncNoCodec
    /\ libraryItems = << >>
    /\ removedId = << >>
    /\ otherTemp = {}
    /\ otherFiles = {}
    /\ nameArgs = << >>
    /\ nameResult = << >>

\* handleAddToLibrary of an audio file: added at the root unless an item of
\* the library has its path
AddFileToLibrary ==
    /\ Len(libraryItems) < MaxItems
    /\ \E it \in FileItems :
         /\ \A k \in 1..Len(libraryItems) : libraryItems[k].path # it.path
         /\ libraryItems' = WithItem(libraryItems, it.name, "file", it.path, NoParent)
    /\ removedId' = << >>
    /\ UNCHANGED << syncVars, codecVars >>

\* handleAddToLibrary of a folder: a root folder named after it, then its
\* audio files as children
AddFolderToLibrary ==
    /\ \E d \in {DirM, DirN} :
         /\ Len(libraryItems) + 1 + Len(FolderContents(d)) <= MaxItems
         /\ libraryItems' =
              WithChildren(WithItem(libraryItems, [stem |-> d.base, ext |-> ""],
                                    "folder", d, NoParent),
                           FolderContents(d), FreshId(libraryItems))
    /\ removedId' = << >>
    /\ UNCHANGED << syncVars, codecVars >>

\* handleAddFolder: a virtual folder at the root, with a name no root folder has
AddVirtualFolder ==
    /\ Len(libraryItems) < MaxItems
    /\ \E folderName \in VirtualFolderNames :
         LET uniqueName == generateUniqueName(folderName,
                                              SiblingNames(libraryItems, NoParent, "folder"))
         IN  /\ uniqueName \in LibraryNames
             /\ libraryItems' = WithItem(libraryItems, uniqueName, "folder", NoPath, NoParent)
    /\ removedId' = << >>
    /\ UNCHANGED << syncVars, codecVars >>

\* handleMoveItem: the item dropped on a folder or on the root gets that
\* parent, and a new name when an item of its kind there has its name
MoveLibraryItem ==
    /\ \E k \in 1..Len(libraryItems),
          targetFolderId \in {NoParent} \cup FolderIds(libraryItems) :
         LET name == generateUniqueName(libraryItems[k].name,
                                        SiblingNames(libraryItems, targetFolderId,
                                                     libraryItems[k].type))
         IN  /\ libraryItems[k].id # targetFolderId
             /\ name \in LibraryNames
             /\ libraryItems' = [libraryItems EXCEPT ![k].parent = targetFolderId,
                                                     ![k].name = name]
    /\ removedId' = << >>
    /\ UNCHANGED << syncVars, codecVars >>

\* handleRenameItem: the item gets the name the user typed
RenameLibraryItem ==
    /\ \E k \in 1..Len(libraryItems), newName \in RenameNames :
         libraryItems' = [libraryItems EXCEPT ![k].name = newName]
    /\ removedId' = << >>
    /\ UNCHANGED << syncVars, codecVars >>

\* handleRemoveFromLibrary: a file leaves alone, a folder leaves with its
\* children and every item below it; when the parents of an item form a
\* loop the filter does not return and the library stays as it is
RemoveFromLibrary ==
    /\ \E k \in 1..Len(libraryItems) :
         LET id == libraryItems[k].id
             Gone(item) == \/ item.id = id
                           \/ /\ libraryItems[k].type = "folder"
                              /\ \/ item.parent = id
                                 \/ isDescendantOf(libraryItems, item, id, {}) = "yes"
             Kept(item) == ~Gone(item)
             loops == /\ libraryItems[k].type = "folder"
                      /\ \E j \in 1..Len(libraryItems) :
                           /\ libraryItems[j].id # id
                           /\ libraryItems[j].parent # id
                           /\ isDescendantOf(libraryItems, libraryItems[j], id, {}) = "loop"
         IN  /\ libraryItems' = IF loops THEN libraryItems
                                         ELSE SelectSeq(libraryItems, Kept)
             /\ removedId' = << id >>
    /\ UNCHANGED << syncVars, codecVars >>

LibraryNext ==
    \/ AddFileToLibrary
    \/ AddFolderToLibrary
    \/ AddVirtualFolder
    \/ MoveLibraryItem
    \/ RenameLibraryItem
    \/ RemoveFromLibrary

LibrarySpec ==
    LibraryInit /\ [][LibraryNext]_vars

(* ------------------------------------------------------------------ *)
(* generateUniqueName, called on its own                              *)
(* ------------------------------------------------------------------ *)

\* the names the calls are made with: a file name, a folder name, and their
\* first three numbered names
CallNames ==
    LET plain == { NameA, [stem |-> "Pop", ext |-> ""] }
    IN  plain \cup { Numbered(n, c) : n \in plain, c \in 1..3 }

\* a call of generateUniqueName with a name and a list of existing names
UniqueInit ==
    /\ NoSyncNoCodec
    /\ libraryItems = << >>
    /\ removedId = << >>
    /\ otherTemp = {}
    /\ otherFiles = {}
    /\ nameArgs \in { << [name |-> n, existingNames |-> ex] >> :
                        n \in CallNames, ex \in SUBSET CallNames }
    /\ nameResult = << >>

\* the call returns the name it made; nothing else is touched
ApplyUniqueName ==
    /\ nameArgs # << >>
    /\ nameResult = << >>
    /\ nameResult' = << generateUniqueName(nameArgs[1].name, nameArgs[1].existingNames) >>
    /\ UNCHANGED << syncVars, headerArgs, header, libraryVars, nameArgs >>

UniqueNext ==
    \/ ApplyUniqueName

UniqueSpec ==
    UniqueInit /\ [][UniqueNext]_vars

(* ------------------------------------------------------------------ *)
(* Vocabulary of the properties                                       *)
(* ------------------------------------------------------------------ *)

\* the call has written its terminal answer
Terminal ==
    pc \in {"complete", "fatal"}

\* this call is a re-sync: it follows a call that ended in a complete event
AfterCompleteSync ==
    /\ prev # << >>
    /\ prev[1].outcome = "complete"

\* the layout of the previous call
PrevLayout ==
    IF prev = << >> THEN << >> ELSE prev[1].layout

\* the source paths the previous call converted and wrote an artifact for
WrittenByPrev ==
    IF prev = << >> THEN {}
    ELSE { prev[1].converted[k].original : k \in 1..Len(prev[1].converted) }

\* the relative paths this call has unlinked
Unlinked ==
    { ops[k].rel : k \in { j \in 1..Len(ops) : ops[j].op = "unlink" /\ ops[j].ok } }

\* the positions of the log at which convertToPCM was called
ConvertOps ==
    { k \in 1..Len(ops) : ops[k].op = "convert" }

\* the relative path the naming rule gives a file of the layout
DesiredRelPath(e) ==
    RelPathOf(e.folder, e.path)

\* the desired set of a layout, root-level files included
DesiredSet(es) ==
    { DesiredRelPath(es[k]) : k \in 1..Len(es) }

\* the path entries of the index on the device
IndexPaths ==
    IF indexFile = << >> THEN {}
    ELSE { indexFile[1].allFiles[k].path : k \in 1..Len(indexFile[1].allFiles) }
         \cup UNION { { indexFile[1].musicFolders[f].files[k].path :
                          k \in 1..Len(indexFile[1].musicFolders[f].files) } :
                      f \in 1..Len(indexFile[1].musicFolders) }

(* ------------------------------------------------------------------ *)
(* Properties                                                         *)
(* ------------------------------------------------------------------ *)

\* C1: a re-sync with an unchanged layout, after a complete sync and with no
\* failure anywhere, calls no conversion for a file whose artifact the first
\* sync wrote.
C1_NoReconversion ==
    (AfterCompleteSync /\ faultCount = 0 /\ layout = PrevLayout)
      => \A k \in ConvertOps : files[ops[k].idx].path \notin WrittenByPrev

\* C2: a re-sync with an unchanged layout, both syncs complete and without
\* failure, leaves index.json as the first sync wrote it.
C2_SameIndex ==
    (AfterCompleteSync /\ faultCount = 0 /\ layout = PrevLayout /\ pc = "complete")
      => indexFile = prev[1].index

\* C3: after a sync that ends in a complete event (no failure anywhere),
\* every .pcm file on the device has an entry in allFiles of index.json.
C3_IndexCoversDevice ==
    (pc = "complete" /\ faultCount = 0)
      => \A r \in scanPCMFiles :
           \E k \in 1..Len(indexFile[1].allFiles) : indexFile[1].allFiles[k].path = r

\* C4: after a sync that ends in a complete event, every path of index.json,
\* in allFiles and in every folder's files, names a .pcm file on the device.
C4_IndexPathsExist ==
    pc = "complete" => IndexPaths \subseteq scanPCMFiles

\* C4 witness: a complete sync whose index lists a file, in allFiles and in a
\* folder, while another file of the request failed and is on no list.
C4_Witness ==
    /\ pc = "complete"
    /\ Len(indexFile[1].allFiles) = 1
    /\ \E f \in 1..Len(indexFile[1].musicFolders) :
         Len(indexFile[1].musicFolders[f].files) >= 1
    /\ \E k \in ConvertOps : ~ops[k].ok

\* C5: after a complete sync, removing one file from the layout and
\* re-syncing (both syncs without failure) unlinks exactly the artifact of
\* that file and converts nothing, so no other artifact is deleted or rewritten.
C5_MinimalDiff ==
    \A k \in 1..Len(PrevLayout) :
      (AfterCompleteSync /\ faultCount = 0 /\ pc = "complete"
         /\ layout = RemoveAt(PrevLayout, k))
        => /\ Unlinked = {DesiredRelPath(PrevLayout[k])}
           /\ ConvertOps = {}

\* C6: after a complete sync, moving one file to another folder (a folder
\* rename moves its files) and re-syncing, both without failure, leaves no
\* artifact at the old relative path and an artifact at the new one.
C6_MoveAsRecreate ==
    \A k \in 1..Len(PrevLayout) :
      (AfterCompleteSync /\ faultCount = 0 /\ pc = "complete"
         /\ Len(layout) = Len(PrevLayout)
         /\ layout[k].path = PrevLayout[k].path
         /\ layout[k].folder # PrevLayout[k].folder)
        => /\ DesiredRelPath(PrevLayout[k]) \notin scanPCMFiles
           /\ DesiredRelPath(layout[k]) \in scanPCMFiles

\* the failed operations of this call
FaultOps ==
    { k \in 1..Len(ops) : ~ops[k].ok }

\* the conversion loop skipped files[k]
Skipped(k) ==
    \E j \in 1..Len(ops) : ops[j].op = "skip" /\ ops[j].idx = k

\* the error lines of the stream
ErrorEvents ==
    { k \in 1..Len(events) : events[k].type = "error" }

NamesOf(fs) ==
    [k \in 1..Len(fs) |-> fs[k].name]

\* C8: in the index of a complete sync, musicFolders has the names of the
\* request's folders in the same order, and every folder lists, in the
\* request's order, the files of that folder whose name is in allFiles.
C8_IndexOrder ==
    pc = "complete" =>
      LET idx == indexFile[1]
          indexed == { idx.allFiles[k].name : k \in 1..Len(idx.allFiles) }
          In(n) == n \in indexed
      IN  /\ NamesOf(idx.musicFolders) = NamesOf(musicFolders)
          /\ \A f \in 1..Len(musicFolders) :
               NamesOf(idx.musicFolders[f].files)
                 = SelectSeq(NamesOf(musicFolders[f].files), In)

\* C8 witness: a complete sync of two folders, each with a file in the index.
C8_Witness ==
    /\ pc = "complete"
    /\ Len(musicFolders) = 2
    /\ \A f \in 1..2 : Len(indexFile[1].musicFolders[f].files) = 1

\* C9: in the log of a call every unlink of a stale artifact comes before
\* every turn of the conversion loop, and every such turn comes before the
\* construction of the index; the index on the device changes only after it.
C9_Ordering ==
    /\ \A a, b \in 1..Len(ops) :
         /\ (ops[a].op = "unlink" /\ ops[b].op \in {"convert", "unreadable", "skip"})
              => a < b
         /\ (ops[a].op \in {"convert", "unreadable", "skip"} /\ ops[b].op = "index")
              => a < b
    /\ pc \in {"delete", "convert"} => indexData = << >>

\* C9 witness: a call that unlinked a stale artifact, converted a file and
\* built its index.
C9_Witness ==
    /\ \E a \in 1..Len(ops) : ops[a].op = "unlink"
    /\ ConvertOps # {}
    /\ \E b \in 1..Len(ops) : ops[b].op = "index"

\* the call created its folders and went on to the deletion loop
PassedPreparation ==
    /\ Len(ops) >= 2
    /\ ops[1].op = "precondition" /\ ops[1].ok
    /\ ops[2].op = "mkdir" /\ ops[2].ok

\* C10: once a call that passed its preconditions and prepared its folders
\* has ended, complete or fatal, every .pcm file on the device is in the
\* desired set of the layout.
C10_NoStaleLeft ==
    (Terminal /\ PassedPreparation) => scanPCMFiles \subseteq DesiredSet(layout)

\* the positions of the log with the given kind of operation
OpsOf(kinds) ==
    { k \in 1..Len(ops) : ops[k].op \in kinds }

\* a precondition check of this call failed
PreconditionFailed ==
    \E k \in OpsOf({"precondition"}) : ~ops[k].ok

\* writing or verifying the index failed in this call
IndexFailed ==
    \E k \in OpsOf({"writeindex"}) : ~ops[k].ok

\* C11: a failed precondition check and the fatal answer that follows it
\* leave the device as it was: its root, the artifacts, the directories and
\* the index.
C11_NoMutationOnPreconditionFailure ==
    [][ ((pc = "precheck" /\ pc' = "catch") \/ (pc = "catch" /\ PreconditionFailed))
          => UNCHANGED deviceVars ]_vars

\* C12: a call never ends, complete or fatal, before the cleanup of the staged
\* files has run, and every call that has arrived ends complete or fatal.
C12_ReachesTerminal ==
    /\ [](Terminal => OpsOf({"cleanup"}) # {})
    /\ ((pc # "idle") ~> Terminal)

\* C13: a call in which writing or verifying the index failed, at whatever
\* stage, ends fatal and its stream holds no complete line.
C13_IndexFailureIsFatal ==
    (Terminal /\ IndexFailed)
      => /\ pc = "fatal"
         /\ \A k \in 1..Len(events) : events[k].type # "complete"

\* C14: a call that ended fatal on a failed precondition or a failed index
\* write has answered with the one error response, with nothing streamed
\* before it.
C14_SingleErrorResponse ==
    (pc = "fatal" /\ (PreconditionFailed \/ IndexFailed))
      => /\ response = "json500"
         /\ events = << >>

ProgressEvents ==
    LET IsProgress(e) == e.type = "progress"
    IN  SelectSeq(events, IsProgress)

\* C16: over the progress lines of a call `current` strictly increases, and
\* once the call is complete `total` is the number of files that needed
\* conversion (the turns that were not skipped).
C16_Progress ==
    /\ \A j, k \in 1..Len(ProgressEvents) :
         j < k => ProgressEvents[j].current < ProgressEvents[k].current
    /\ pc = "complete" =>
         \A j \in 1..Len(ProgressEvents) :
           ProgressEvents[j].total = Cardinality(OpsOf({"convert", "unreadable"}))

\* the relative path the naming rule gives a name in a folder
NamedRelPath(folder, name) ==
    IF folder # NoFolder THEN folder \o "/" \o name.stem \o ".pcm"
                         ELSE name.stem \o ".pcm"

\* C17: every turn of the conversion loop uses the relative path made from
\* the file's name, and two files of one folder with different names get
\* different relative paths.
C17_PathFromName ==
    LET turns == OpsOf({"convert", "unreadable", "skip"})
        FileOf(k) == files[ops[k].idx]
    IN  /\ \A k \in turns :
             ops[k].rel = NamedRelPath(TargetFolder(FileOf(k)), FileOf(k).name)
        /\ \A a, b \in turns :
             (TargetFolder(FileOf(a)) = TargetFolder(FileOf(b))
                /\ FileOf(a).name # FileOf(b).name)
               => ops[a].rel # ops[b].rel

\* the previous call converted this source to this relative path
PrevWrote(path, rel) ==
    /\ prev # << >>
    /\ \E c \in 1..Len(prev[1].converted) :
         /\ prev[1].converted[c].original = path
         /\ prev[1].converted[c].relativePath = rel

\* C18: in a re-sync of an unchanged layout, both calls without failure, a
\* file in no folder whose artifact the first call wrote at <base>.pcm is
\* neither unlinked nor converted again.
C18_RootLevelKept ==
    (AfterCompleteSync /\ faultCount = 0 /\ layout = PrevLayout /\ pc # "rejected")
      => \A k \in 1..Len(layout) :
           (layout[k].folder = NoFolder
              /\ PrevWrote(layout[k].path, Basename(layout[k].path) \o ".pcm"))
             => /\ \A u \in OpsOf({"unlink"}) :
                     ops[u].rel # Basename(layout[k].path) \o ".pcm"
                /\ \A c \in OpsOf({"convert"}) : ops[c].idx # k

\* C21: in the library no two items of the same kind under the same parent
\* have the same name.
C21_UniqueSiblingNames ==
    \A j, k \in 1..Len(libraryItems) :
      (j # k /\ libraryItems[j].parent = libraryItems[k].parent
             /\ libraryItems[j].type = libraryItems[k].type)
        => libraryItems[j].name # libraryItems[k].name

\* the number a sequence of bytes holds, least significant byte first
RECURSIVE FromLE(_)
FromLE(bs) ==
    IF bs = << >> THEN 0 ELSE Head(bs) + 256 * FromLE(Tail(bs))

\* C19: every artifact on the device is the 32-byte header followed by the
\* payload decoded from its source: its length is 32 plus the payload length
\* and bytes 16..19 hold the payload length.
C19_HeaderedArtifact ==
    \A a \in disk :
      /\ Len(a.data) = 32 + Len(Decoded(a.src))
      /\ FromLE(SubSeq(a.data, 17, 20)) = Len(Decoded(a.src))

\* C20: the encoder returns 32 bytes: the codes of 'ESP32PCM', then the sample
\* rate in 4 bytes, the bit depth in 2, the channel count in 2 and the payload
\* size in 4, each least significant byte first, then 12 zero bytes; the call
\* leaves the device, the staged files and the registry as they were.
C20_HeaderLayout ==
    header # << >> =>
      LET h == header[1]
          a == headerArgs[1]
      IN  /\ Len(h) = 32
          /\ \A k \in 1..32 : h[k] \in 0..255
          /\ SubSeq(h, 1, 8) = << 69, 83, 80, 51, 50, 80, 67, 77 >>
          /\ FromLE(SubSeq(h, 9, 12)) = a.sampleRate
          /\ FromLE(SubSeq(h, 13, 14)) = a.bitDepth
          /\ FromLE(SubSeq(h, 15, 16)) = a.channels
          /\ FromLE(SubSeq(h, 17, 20)) = a.dataSize
          /\ \A k \in 21..32 : h[k] = 0
          /\ disk = {} /\ tmpDisk = {} /\ tempFiles = {}

\* C20 witness: the header of 65536 bytes of 44.1 kHz 16-bit stereo samples;
\* 44100 is 0xAC44, so the sample rate starts with the bytes 68 and 172.
C20_Witness ==
    /\ header # << >>
    /\ headerArgs[1] = [sampleRate |-> 44100, bitDepth |-> 16, channels |-> 2,
                        dataSize |-> 65536]
    /\ header[1][9] = 68 /\ header[1][10] = 172
    /\ header[1][19] = 1

\* the conversions of this call that failed: the decoder failed, the
\* destination could not be written, or the written destination is missing
FailedConversions ==
    { j \in OpsOf({"convert"}) : ~ops[j].ok }

\* the turns of the conversion loop in the log
TurnOps ==
    OpsOf({"skip", "nofolder", "unreadable", "convert"})

\* the folders of the request that list the file
ListedIn(file) ==
    { f \in 1..Len(musicFolders) :
        \E m \in 1..Len(musicFolders[f].files) : musicFolders[f].files[m].path = file.path }

\* the index shows no entry for the file: none of its name in allFiles under
\* the file's folder (folderIndex -1 for a root-level file), none of its name
\* in the list of a folder that holds it
AbsentFromIndex(file, idx) ==
    /\ \A c \in 1..Len(idx.allFiles) :
         ~ /\ idx.allFiles[c].name = file.name
           /\ IF ListedIn(file) = {} THEN idx.allFiles[c].folderIndex = -1
                                     ELSE idx.allFiles[c].folderIndex + 1 \in ListedIn(file)
    /\ \A f \in ListedIn(file) :
         \A m \in 1..Len(idx.musicFolders[f].files) :
           idx.musicFolders[f].files[m].name # file.name

\* C22: a file whose conversion fails gets exactly one error line, does not
\* end the call, is followed by the turn of the next file of the input, and
\* has no entry in allFiles or in the folder lists of the index written.
C22_FailedConversion ==
    /\ Cardinality(ErrorEvents) = Cardinality(FaultOps \cap TurnOps)
    /\ \A m, n \in TurnOps : m < n => ops[m].idx < ops[n].idx
    /\ \A j \in FailedConversions :
         LET k == ops[j].idx
         IN  /\ FaultOps = {j} => pc \notin {"catch", "fatal"}
             /\ \E e \in ErrorEvents : events[e].file = files[k].name
             /\ (k < Len(files) /\ pc \in {"indexwrite", "cleanup", "complete"})
                  => \E n \in TurnOps : n > j /\ ops[n].idx = k + 1
             /\ (pc = "complete" /\ indexFile = indexData)
                  => AbsentFromIndex(files[k], indexFile[1])

\* the precondition check of this call came to this outcome
PreconditionCameTo(out) ==
    /\ Len(ops) >= 1
    /\ ops[1].op = "precondition"
    /\ ops[1].rel = out

\* C23: the answer to a failed precondition tells the failures apart: a
\* device root that does not exist is answered with "not accessible", one
\* that is not a directory with "not a directory", and a directory that
\* rejects the probe write with "not writable".
C23_DistinctPreconditionErrors ==
    (pc = "fatal" /\ response = "json500") =>
      /\ PreconditionCameTo("missing") => errorMessage = "Device path not accessible"
      /\ PreconditionCameTo("notdir") => errorMessage = "Device path is not a directory"
      /\ PreconditionCameTo("probe") => errorMessage = "Device path not writable"

\* the preparation status line is in the stream
PreparationReported ==
    \E e \in 1..Len(events) : events[e].type = "status" /\ events[e].step = "preparation"

\* the folders of the layout of this call
LayoutFolders ==
    { layout[k].folder : k \in 1..Len(layout) } \ {NoFolder}

\* C24 (state part): once the preparation status line is out, every folder of
\* the layout has its directory, and no deletion and no turn of the conversion
\* loop is logged before the folders were made.
C24_FoldersPrepared ==
    /\ PreparationReported => LayoutFolders \subseteq dirs
    /\ \A k \in OpsOf({"unlink", "skip", "nofolder", "unreadable", "convert"}) :
         /\ PreparationReported
         /\ \E m \in OpsOf({"mkdir"}) : m < k /\ ops[m].ok

\* C24 (step part): preparing on a device whose directories all exist
\* changes nothing on the device.
C24_PrepareStep ==
    (pc = "prep" /\ LayoutFolders \subseteq dirs) => UNCHANGED deviceVars

\* C24: once the preconditions pass, every folder of the layout has its
\* directory before the preparation status line, before any deletion or
\* conversion; where the directories exist already, preparing changes nothing.
C24_FolderPreparation ==
    [] C24_FoldersPrepared /\ [][C24_PrepareStep]_vars

\* a re-sync whose folders all existed on the device has been prepared and
\* has then deleted and converted
C24_Witness ==
    /\ AfterCompleteSync
    /\ LayoutFolders # {}
    /\ LayoutFolders \subseteq { PrevLayout[n].folder : n \in 1..Len(PrevLayout) }
    /\ PreparationReported
    /\ OpsOf({"unlink"}) # {}
    /\ ConvertOps # {}

\* index.json on the device when this call began
IndexBefore ==
    IF prev = << >> THEN << >> ELSE prev[1].index

\* the index write of this call came to one of these outcomes
IndexCameTo(outs) ==
    \E k \in OpsOf({"writeindex"}) : ops[k].rel \in outs

\* C25: index.json on the device differs from what it was when the call
\* began only if the staged index was written and parsed back and the copy
\* succeeded; when the staged write or the parse-back failed, index.json is
\* what it was.
C25_IndexOverwrittenAfterStaging ==
    /\ indexFile # IndexBefore => IndexCameTo({"final", "ok"})
    /\ IndexCameTo({"stage", "parse"}) => indexFile = IndexBefore

\* a re-sync built an index that differs from the one on the device, and
\* staging it failed
C25_Witness ==
    /\ prev # << >>
    /\ IndexBefore # << >>
    /\ indexData # << >>
    /\ indexData # IndexBefore
    /\ IndexCameTo({"stage", "parse"})
    /\ pc = "fatal"

\* the last line of the stream is the error line of a failed decoding
DecodeFailedLast(evs) ==
    /\ evs # << >>
    /\ evs[Len(evs)].type = "error"
    /\ evs[Len(evs)].error = "decode"

\* C26 (step part): the step in which a conversion settles with a decode
\* failure leaves every artifact of the device as it was
C26_DecodeFailureStep ==
    (pc = "convert" /\ inFlight # {} /\ inFlight' # inFlight /\ DecodeFailedLast(events'))
      => disk' = disk

\* C26: a conversion whose decoding fails creates and changes no file at the
\* destination path.
C26_NothingWrittenBeforeDecoding ==
    [][C26_DecodeFailureStep]_vars

\* the decoding of a file failed whose destination path holds the artifact
\* of another source
C26_Witness ==
    /\ DecodeFailedLast(events)
    /\ pc = "convert"
    /\ \E j \in FailedConversions :
         /\ j = Len(ops)
         /\ \E a \in disk : a.rel = ops[j].rel /\ a.src # files[ops[j].idx].path

\* the files the conversion loop has taken and written a progress line for,
\* in input order: those it did not skip and whose folder it could make
Attempted ==
    LET Reported(k) == \A j \in OpsOf({"skip", "nofolder"}) : ops[j].idx # k
    IN  SelectSeq([k \in 1..(i - 1) |-> k], Reported)

\* the progress and error lines of the stream, in order
FileEvents ==
    LET OfFile(e) == e.type \in {"progress", "error"}
    IN  SelectSeq(events, OfFile)

\* the lines name files of the request in the order of its file list, from
\* files[k] on: each line names the file of the line before it or a later one
RECURSIVE InFileOrder(_, _)
InFileOrder(evs, k) ==
    IF evs = << >> THEN TRUE
    ELSE LET later == { n \in k..Len(files) : files[n].name = Head(evs).file }
         IN  /\ later # {}
             /\ InFileOrder(Tail(evs), Min(later))

\* C27: at most one conversion is running at any moment of a call; the turns
\* are logged in the order of the request's file list; the progress lines are
\* those of the files taken, in that order, and the progress and error lines
\* together follow the order of the file list.
C27_OneAtATime ==
    /\ Cardinality(inFlight) <= 1
    /\ \A m, n \in TurnOps : m < n => ops[m].idx < ops[n].idx
    /\ pc \in {"convert", "indexwrite", "cleanup", "complete"} =>
         /\ Len(ProgressEvents) = Len(Attempted)
         /\ \A n \in 1..Len(Attempted) :
              ProgressEvents[n].file = files[Attempted[n]].name
    /\ InFileOrder(FileEvents, 1)

\* the second file's conversion is running after the first file's failed
C27_Witness ==
    /\ inFlight = {2}
    /\ ErrorEvents # {}
    /\ Len(ProgressEvents) = 2
    /\ files[1].name # files[2].name

\* the pairs of files of the request that get the same relative path, one
\* the re-scan did not find on the device
Collisions ==
    { << j, k >> \in (1..Len(files)) \X (1..Len(files)) :
        /\ j < k
        /\ files[j].path # files[k].path
        /\ RelativePath(files[j]) = RelativePath(files[k])
        /\ RelativePath(files[j]) \notin updatedExistingRelPaths }

\* the log entry of the successful conversion of files[k], 0 when none
ConvertedAt(k) ==
    LET js == { j \in ConvertOps : ops[j].idx = k /\ ops[j].ok }
    IN  IF js = {} THEN 0 ELSE Min(js)

\* the last file of the request that gets this relative path
LastFor(rel) ==
    CHOOSE k \in 1..Len(files) :
      /\ RelativePath(files[k]) = rel
      /\ \A n \in 1..Len(files) : RelativePath(files[n]) = rel => n <= k

\* C28: when two sources of a request get the same relative path and the
\* path is not on the device, then, in a call whose turns all succeed, both
\* are converted in input order, the one artifact at that path is the one
\* written for the later file, and the index written lists both under that path.
C28_LastWriteWins ==
    (pc \in {"indexwrite", "cleanup", "complete"} /\ FaultOps \cap TurnOps = {}) =>
      \A c \in Collisions :
        LET rel == RelativePath(files[c[1]])
        IN  /\ ConvertedAt(c[1]) # 0
            /\ ConvertedAt(c[2]) # 0
            /\ ConvertedAt(c[1]) < ConvertedAt(c[2])
            /\ \A a \in disk : a.rel = rel => a.src = files[LastFor(rel)].path
            /\ Cardinality({ a \in disk : a.rel = rel }) = 1
            /\ (pc = "complete" /\ indexFile = indexData) =>
                 Cardinality({ n \in 1..Len(indexFile[1].allFiles) :
                                 indexFile[1].allFiles[n].path = rel }) >= 2

\* a complete call converted two sources to one relative path
C28_Witness ==
    /\ pc = "complete"
    /\ indexFile = indexData
    /\ FaultOps = {}
    /\ Collisions # {}

\* this call follows a call that converted files and then ended fatal, which
\* only a failed index write does, and it has the same layout
AfterIndexFailure ==
    /\ prev # << >>
    /\ prev[1].outcome = "fatal"
    /\ prev[1].converted # << >>
    /\ layout = PrevLayout
    /\ pc # "rejected"

\* C29: after a sync that ended with a fatal index failure every artifact it
\* wrote is on the device when the next sync begins, and a next sync with the
\* same layout in which nothing fails skips the conversion of those files.
C29_NoRollback ==
    AfterIndexFailure =>
      \A n \in 1..Len(prev[1].converted) :
        LET c == prev[1].converted[n]
        IN  /\ pc = "precheck" => c.relativePath \in scanPCMFiles
            /\ (FaultOps = {} /\ pc \in {"indexwrite", "cleanup", "complete"}) =>
                 \A k \in 1..Len(files) : files[k].path = c.original => Skipped(k)

\* the complete lines of the stream
CompleteEvents ==
    { e \in 1..Len(events) : events[e].type = "complete" }

\* C30: the stream of a call that ended successfully holds exactly one
\* complete line, as its last line and right after the cleanup status line;
\* in its stats filesConverted is at most totalFiles and is the totalFiles
\* written to index.json, and foldersCreated is the number of folders of the
\* layout.  No other call has a complete line.
C30_CompleteEvent ==
    /\ pc # "complete" => CompleteEvents = {}
    /\ pc = "complete" =>
         LET st == events[Len(events)].stats
         IN  /\ CompleteEvents = {Len(events)}
             /\ Len(events) >= 2
             /\ events[Len(events) - 1].type = "status"
             /\ events[Len(events) - 1].step = "cleanup"
             /\ st.filesConverted <= st.totalFiles
             /\ indexFile # << >>
             /\ st.filesConverted = indexFile[1].totalFiles
             /\ st.foldersCreated = Cardinality(LayoutFolders)

\* a complete call that converted fewer files than the request held, into
\* at least one folder
C30_Witness ==
    /\ pc = "complete"
    /\ CompleteEvents # {}
    /\ events[Len(events)].stats.filesConverted < events[Len(events)].stats.totalFiles
    /\ events[Len(events)].stats.foldersCreated > 0

\* C31: every progress line of the stream has progress in 0..100 and
\* 1 <= current <= total.
C31_ProgressRange ==
    \A n \in 1..Len(ProgressEvents) :
      /\ ProgressEvents[n].progress \in 0..100
      /\ 1 <= ProgressEvents[n].current
      /\ ProgressEvents[n].current <= ProgressEvents[n].total

\* the stream holds the progress line of the last file of a request, written
\* after every file before it was converted
C31_Witness ==
    /\ Len(ProgressEvents) = 2
    /\ ProgressEvents[2].current = ProgressEvents[2].total
    /\ ProgressEvents[2].progress = 50
    /\ ProgressEvents[1].progress = 0

\* the name of the implicit folder of the root-level files
EmptyName ==
    [stem |-> "", ext |-> ""]

\* the ids of the folders of the library that directly hold an audio file
FoldersWithFiles(items) ==
    { f \in FolderIds(items) : Len(ChildFiles(items, f)) > 0 }

\* the places of the folder lists of the structure
Places(st) ==
    { << n, m >> \in (1..Len(st.musicFolders)) \X (1..MaxItems) :
        m <= Len(st.musicFolders[n].files) }

\* C32: the structure derived from the library holds exactly the folders that
\* directly hold an audio file, each with its files in library order; every
\* audio file of the library is in exactly one folder's list (each is in a
\* list, and the lists hold as many entries as the library has audio files);
\* the root-level files are the members of a folder with the empty name.
C32_DesiredLayout ==
    LET st == generateIndexFileStructure(libraryItems)
        rootFiles == ChildFiles(libraryItems, NoParent)
    IN  /\ Len(st.musicFolders) = Cardinality(FoldersWithFiles(libraryItems))
                                    + (IF Len(rootFiles) > 0 THEN 1 ELSE 0)
        /\ \A f \in FoldersWithFiles(libraryItems) :
             \E n \in 1..Len(st.musicFolders) :
               /\ st.musicFolders[n].name = FindItem(libraryItems, f)[1].name
               /\ st.musicFolders[n].files = ChildFiles(libraryItems, f)
        /\ \A k \in 1..Len(libraryItems) :
             libraryItems[k].type = "file" =>
               \E pl \in Places(st) :
                 st.musicFolders[pl[1]].files[pl[2]] =
                   [path |-> libraryItems[k].path, name |-> libraryItems[k].name]
        /\ Cardinality(Places(st)) = st.totalFiles
        /\ Len(rootFiles) > 0 =>
             \E n \in 1..Len(st.musicFolders) :
               /\ st.musicFolders[n].name = EmptyName
               /\ st.musicFolders[n].files = rootFiles

\* the name is base, " (k)" and extension
IsNumbered(r, name, k) ==
    /\ r.stem = name.stem \o " (" \o ToString(k) \o ")"
    /\ r.ext = name.ext

\* C33: generateUniqueName returns the name itself when it is not among the
\* existing names; else a name that is not among them, made of the base,
\* " (k)" and the extension, with the smallest k >= 1 whose name is free.
C33_UniqueName ==
    nameResult # << >> =>
      LET name == nameArgs[1].name
          ex == nameArgs[1].existingNames
          r == nameResult[1]
      IN  /\ name \notin ex => r = name
          /\ name \in ex =>
               /\ r \notin ex
               /\ \E k \in 1..(Cardinality(ex) + 1) :
                    /\ IsNumbered(r, name, k)
                    /\ \A j \in 1..(k - 1) :
                         \E e \in ex : IsNumbered(e, name, j)

\* a call whose name and first numbered name are taken has returned
C33_Witness ==
    /\ nameResult # << >>
    /\ nameArgs[1].name = NameA
    /\ NameA \in nameArgs[1].existingNames
    /\ \E e \in nameArgs[1].existingNames : IsNumbered(e, NameA, 1)
    /\ IsNumbered(nameResult[1], NameA, 2)

\* the ids of S and of every item below an item of S, at any depth
RECURSIVE WithDescendants(_, _)
WithDescendants(items, S) ==
    LET more == S \cup { items[k].id : k \in { x \in 1..Len(items) : items[x].parent \in S } }
    IN  IF more = S THEN S ELSE WithDescendants(items, more)

\* the library without the item of this id and, for a folder, without every
\* item that has it as an ancestor
AfterRemoval(items, id) ==
    LET Stays(item) == item.id \notin WithDescendants(items, {id})
    IN  SelectSeq(items, Stays)

\* every parent id of the library names an item of the library
NoDanglingParent ==
    \A k \in 1..Len(libraryItems) :
      libraryItems[k].parent # NoParent
        => FindItem(libraryItems, libraryItems[k].parent) # << >>

\* C34 (step part): a removal leaves the library without the item and without
\* everything below it, and with everything else
C34_RemovalStep ==
    removedId' # << >> => libraryItems' = AfterRemoval(libraryItems, removedId'[1])

\* C34: removing a folder removes it and every item below it, at any depth,
\* and nothing else; after any sequence of additions, moves and removals
\* every parent id names an item of the library.
C34_RemoveFolder ==
    [] NoDanglingParent /\ [][C34_RemovalStep]_vars

\* the relative paths that begin with the name of this folder
PathsUnder(folder) ==
    { RelPathOf(folder.name, files[k].path) : k \in 1..Len(files) }

\* C35: in a call in which nothing fails, every file converted was written
\* into the directory of the folder that lists it, so each folder holds the
\* artifact of its own file also when another folder lists a file of the same
\* name; and every entry of a folder's list in the index has a path under
\* that folder's name.
C35_OwnFolder ==
    (pc = "complete" /\ FaultOps = {} /\ indexFile = indexData) =>
      /\ \A j \in ConvertOps :
           LET file == files[ops[j].idx]
           IN  \A f \in ListedIn(file) :
                 /\ ops[j].rel = RelPathOf(musicFolders[f].name, file.path)
                 /\ \E a \in disk : /\ a.rel = RelPathOf(musicFolders[f].name, file.path)
                                    /\ a.src = file.path
      /\ \A f \in 1..Len(indexFile[1].musicFolders) :
           \A m \in 1..Len(indexFile[1].musicFolders[f].files) :
             indexFile[1].musicFolders[f].files[m].path \in PathsUnder(musicFolders[f])

\* C36 (step part): the cleanup of the call, on its success path and in its
\* catch, leaves in place every staged payload that another call registered
\* and has not read back
C36_CleanupStep ==
    (pc \in {"cleanup", "catch"} /\ pc' \in {"complete", "fatal"})
      => (otherTemp \cap tmpDisk) \subseteq tmpDisk'

\* C36: when two sync calls run interleaved in one process, the cleanup of
\* one call never deletes a staged payload the other call has registered and
\* not yet read back.
C36_CleanupOwnFilesOnly ==
    [][C36_CleanupStep]_vars

\* the cleanup of this call has run
CleanedUp ==
    \E k \in OpsOf({"cleanup"}) : TRUE

\* C37: after the cleanup of a call the set of registered staged files is
\* empty, also when a registered file was never created.
C37_RegistryEmptyAfterCleanup ==
    (Terminal /\ CleanedUp) => tempFiles = {}


(* ------------------------------------------------------------------ *)
(* C38: what a sync removes from the device                           *)
(* ------------------------------------------------------------------ *)

\* the probe file of the write test of the device root
ProbeFile ==
    ".write_test"

\* the directories of ESP32_MUSIC that belong to no folder of the request
LeftFolders ==
    dirs \ { musicFolders[f].name : f \in 1..Len(musicFolders) }

C38_KeepsStep ==
    /\ otherFiles \subseteq otherFiles'
    /\ dirs \subseteq dirs'
    /\ (rootEntries \ {ProbeFile}) \subseteq rootEntries'
    /\ \A a \in disk : (\A b \in disk' : b.rel # a.rel) => a.rel \in scanPCMFiles

AllPaths(ix) ==
    { ix.allFiles[k].path : k \in 1..Len(ix.allFiles) }

\* this entry of allFiles is in the list of this folder of the index
InFolderList(ix, e, f) ==
    \E k \in 1..Len(ix.musicFolders[f].files) :
      /\ ix.musicFolders[f].files[k].name = e.name
      /\ ix.musicFolders[f].files[k].path = e.path

SelfConsistent(ix) ==
    /\ ix.totalFiles = Len(ix.allFiles)
    /\ \A f \in 1..Len(ix.musicFolders) :
         \A k \in 1..Len(ix.musicFolders[f].files) :
           ix.musicFolders[f].files[k].path \in AllPaths(ix)
    /\ \A k \in 1..Len(ix.allFiles) :
         LET e == ix.allFiles[k]
         IN  e.folderIndex >= 0 =>
               /\ e.folderIndex + 1 \in 1..Len(ix.musicFolders)
               /\ InFolderList(ix, e, e.folderIndex + 1)

\* C39: in the index.json on the device totalFiles is the length of
\* allFiles, every path of every folder list occurs in allFiles, and every
\* entry of allFiles with a folderIndex k >= 0 is in the list of folder k.
C39_IndexSelfConsistent ==
    indexFile # << >> => SelfConsistent(indexFile[1])

====
